---- MODULE Spec2Model ----
(***************************************************************************)
(* Model of the kitchen-order ingestion worker: the SSEListener Durable    *)
(* Object (sse-listener.ts) that supervises the upstream stream            *)
(* connection, and the Worker routes (index.ts) that reach it.             *)
(*                                                                         *)
(* One SSEListener object is a record s; every handler and every           *)
(* continuation of an await is an operator from the object's state to its  *)
(* next state.  A step of the model runs one handler or one continuation   *)
(* from the point where it is resumed to its next suspension point.        *)
(* Suspension points are the awaits on outside I/O: fetch of the stream,   *)
(* reader.read(), setTimeout, and logger.flush() when it has something to  *)
(* send.  An await on this.state.storage does not let another event in     *)
(* (the object's input gate), so a storage write belongs to the step that  *)
(* issues it.  logger.flush() returns at once when the logger is disabled; *)
(* when it is enabled every flush of the control path directly follows a   *)
(* logger.log(), so the buffer is not empty and the flush suspends.  A     *)
(* flush that is the last statement before a return (handleStop,           *)
(* the end of maintainSSEConnection) resumes nothing that touches the      *)
(* object, so the model ends the handler at the flush.                     *)
(*                                                                         *)
(* The running invocations of maintainSSEConnection are a bag of loop      *)
(* records: two invocations at the same point with the same signal are     *)
(* interchangeable.                                                        *)
(*                                                                         *)
(* One start() is past the test of activeConnection at a time: a second    *)
(* one that passes the same test finds activeConnection set in             *)
(* startSSEConnection and returns.  The /test and /health routes change    *)
(* none of the object's fields and nothing in storage; they are not steps  *)
(* of the specifications below.  The head of SSEListener.fetch creates a   *)
(* logger from the token the Worker passes only when the constructor's     *)
(* logger is disabled; the Worker and the object read the same             *)
(* environment, so the token it passes is the one the constructor had.     *)
(*                                                                         *)
(* A line of the stream is a record of what the code reads of it (Event).  *)
(* The inserts issued for a record and the reports made of them to the     *)
(* logger are kept with the record (job.inserts, job.ops).  On the         *)
(* supervisor's path the contents of the logger's buffer are not tracked.  *)
(*                                                                         *)
(* Spec is the control plane with /status; SpecHeartbeat adds the          *)
(* 5-minute heartbeat; SpecStream follows one connection through the       *)
(* handling of its records, one line to a chunk; SpecChunks does the same  *)
(* with chunks of several lines; SpecRecords handles one record, drawn     *)
(* from all of Events, on the stream path or on POST /api/process-order.   *)
(* The other specifications follow one part of the data path by itself,    *)
(* the object idle: SpecFramer the bytes of a stream through the decoder   *)
(* and the line buffer, SpecReconnect the same over several connections,   *)
(* SpecLogger the logger's buffer through the log and flush calls of the   *)
(* handlers, SpecParser one dish line through parseDishesFromText,         *)
(* SpecReceipt a receipt body through the head of processOrder (table      *)
(* number, order type, dish section), SpecDishes one dish line of a        *)
(* customer order or of a kitchen slip to the dish records sent for it.    *)
(***************************************************************************)
EXTENDS Integers, Sequences, FiniteSets, Bags, TLC

\* the slots for concurrently running maintainSSEConnection() invocations
MaxLoops == 2
\* a cap on the events counted by totalOrdersReceived
MaxEvents == 1

\* a cap on the events counted on one connection when records are followed
\* through processOrder
MaxRecords == 2
\* the most marker tokens a receipt body holds
MaxMarkers == 2
\* the most dish lines each extraction finds in a receipt body
MaxDishes == 2
\* the most bytes a stream delivers when its framing is followed
MaxInput == 4
\* the most lines of one chunk when chunks of several lines are followed
MaxLines == 2
\* the most calls of logger.log when the logger's buffer is followed
MaxLogs == 7
\* the most connections when the framing is followed across connections
MaxConns == 2
\* the most characters of a dish line
MaxLine == 6
\* the most lines of a receipt body
MaxBody == 6
\* the most characters of a line of a kitchen slip
MaxSlip == 5

maxReconnectAttempts == 10
BaseDelay == 5000
MaxDelay == 60000
\* the thresholds of the flush test of processSSEStream
FlushSize == 5
FlushAge == 30000

\* the two Durable Object names the Worker's routes resolve to
Routes == {"/api/sse-listener/", "/api/sse/"}
DONames == {"default-listener", "singleton"}

VARIABLES
  objs,    \* DO name -> the SSEListener object of that name
  routes,  \* the route prefixes the operator's client calls
  hist,    \* DO name -> observations of the run so far (history only)
  last,    \* the step that led to the current state (history only)
  framer,  \* one run of processSSEStream, byte by byte: decoder and buffer
  logger,  \* the AxiomLogger of one object, and the callers of its flush
  parser   \* one dish line and what parseDishesFromText makes of it

vars == <<objs, routes, hist, last, framer, logger, parser>>

\* the variables of the runs that follow one function through its inputs
apart == <<framer, logger, parser>>

RECURSIVE Pow(_, _)
Pow(b, e) == IF e <= 0 THEN 1 ELSE b * Pow(b, e - 1)

\* delays are kept in units of 1/DelayUnit ms, so that 1.5^k stays exact
DelayUnit == Pow(2, maxReconnectAttempts - 2)

----------------------------------------------------------------------------
\* Worker routing (index.ts)

\* the Durable Object a control route forwards to
DOForRoute(r) ==
  IF r = "/api/sse-listener/" THEN "default-listener" ELSE "singleton"

----------------------------------------------------------------------------
\* Records of the stream

\* the tokens the code looks for in plain_text:
\* "pre" 预结单, "checkout" 结账单, "slip" 制作分单, "order" 客单, "add" 加菜
Markers == {"pre", "checkout", "slip", "order", "add"}

\* the name on the station line (档口:) of a body: none, a key of stationMap,
\* a name that is no key of it, a name every object inherits a property for
Stations == {"none", "listed", "unlisted", "constructor"}

\* the type field of a record, by the values the code compares it with
Types == {"", "connected", "kitchenSlip", "order", "other"}

\* one line of the stream, by what the code reads of it: whether it parses
\* as JSON, its type, whether receipt_no and plain_text are present, the
\* tokens in plain_text, the station name, and how many dishes
\* parseDishesFromText and the kitchen-slip extraction find
Event(json, type, receipt, text, markers, station, orderDishes, slipDishes) ==
  [json |-> json, type |-> type, receipt |-> receipt, text |-> text,
   markers |-> markers, station |-> station,
   orderDishes |-> orderDishes, slipDishes |-> slipDishes]

NoEvent == Event("none", "", FALSE, FALSE, {}, "none", 0, 0)
Garbage == Event("garbage", "", FALSE, FALSE, {}, "none", 0, 0)
SentinelEvent == Event("object", "connected", FALSE, FALSE, {}, "none", 0, 0)
SkippedEvent == Event("object", "", FALSE, FALSE, {}, "none", 0, 0)

\* the records considered: a body is read only when present, the station
\* line and the kitchen-slip dish lines only by the kitchen-slip branches
Events ==
  {Garbage} \cup
  {e \in [json : {"object"}, type : Types, receipt : BOOLEAN, text : BOOLEAN,
          markers : {m \in SUBSET Markers : Cardinality(m) <= MaxMarkers},
          station : Stations,
          orderDishes : 0..MaxDishes, slipDishes : 0..MaxDishes] :
     /\ ~e.text => /\ e.markers = {} /\ e.station = "none"
                   /\ e.orderDishes = 0 /\ e.slipDishes = 0
     /\ (e.station # "none" \/ e.slipDishes > 0)
          => ("slip" \in e.markers \/ e.type = "kitchenSlip")}

\* processSSEStream compares type with 'connected' only, and processOrder
\* uses the dishes of parseDishesFromText only for a customer order
StreamEvents ==
  {e \in Events :
     /\ e.type \in {"", "connected"}
     /\ e.orderDishes > 0 => ("order" \in e.markers \/ "add" \in e.markers)}

\* a sample of them: no pre-checkout, checkout or add-dish token, no station
\* name that is an inherited property, at most one dish line of a kind
SampleEvents ==
  {e \in StreamEvents : /\ e.markers \subseteq {"slip", "order"}
                         /\ e.station # "constructor"
                         /\ e.orderDishes <= 1 /\ e.slipDishes <= 1}

\* the records of the chunks of several lines: no receipt_no, or a receipt
\* with one token and a station of the table if it names one
ChunkEvents ==
  {SkippedEvent} \cup
  {e \in SampleEvents : /\ e.type = "" /\ e.receipt /\ e.text
                         /\ Cardinality(e.markers) = 1
                         /\ e.station \in {"none", "listed"}}

\* a chunk: its lines, each with what the flush test finds when the for
\* loop reaches it
Chunks ==
  UNION {[1..n -> [e : ChunkEvents, flushNow : BOOLEAN]] : n \in 1..MaxLines}

\* the record a handler has in hand: the inserts it has issued for it, the
\* calls of logSupabaseOperation it has made, the kitchen-slip dish lines
\* still to insert, whether a catch block took over
NewJob(e) ==
  [e |-> e, inserts |-> <<>>, ops |-> <<>>, left |-> 0, caught |-> FALSE,
   done |-> FALSE]

NoJob == NewJob(NoEvent)

\* one insert call: the table, the station_id of its rows as serialised,
\* the number of rows
Insert(table, station, rows) ==
  [table |-> table, station |-> station, rows |-> rows]

\* logger.logSupabaseOperation('insert', table, success, duration, error)
logSupabaseOperation(job, table, success) ==
  [job EXCEPT !.ops = Append(@, [table |-> table, success |-> success])]

\* what the code takes a record for: on the stream path the sentinel test
\* and the skips of processSSEStream, then the checkout skip and orderType
\* of processOrder; on the process-order path the skips and the branches of
\* processOrderToSupabase
classify(e, path) ==
  IF path = "stream"
  THEN IF e.type = "connected" THEN "sentinel"
       ELSE IF ~e.receipt
       THEN IF e.text /\ "pre" \in e.markers THEN "pre_checkout"
            ELSE "skipped"
       ELSE IF ~e.text THEN "skipped"
       ELSE IF "checkout" \in e.markers THEN "checkout"
       ELSE IF "slip" \in e.markers THEN "kitchen_slip"
       ELSE IF "order" \in e.markers \/ "add" \in e.markers
       THEN "customer_order"
       ELSE "unknown"
  ELSE IF e.text /\ "pre" \in e.markers THEN "pre_checkout"
       ELSE IF e.text /\ "checkout" \in e.markers THEN "checkout"
       ELSE IF e.type = "kitchenSlip" \/ (e.text /\ "slip" \in e.markers)
       THEN "kitchen_slip"
       ELSE IF e.type \in {"order", ""} \/ (e.text /\ "order" \in e.markers)
       THEN "customer_order"
       ELSE "unknown"

----------------------------------------------------------------------------
\* POST /api/process-order (index.ts)

\* processOrderToSupabase for the body e, the inserts it issues settling as
\* o1 and o2; a body without an items array
processOrderToSupabase(e, o1, o2) ==
  LET job    == NewJob(e)
      failed == [job EXCEPT !.caught = TRUE, !.done = TRUE]
      one(x) == [job EXCEPT !.inserts = <<x>>, !.done = TRUE,
                            !.caught = (o1 # "ok")]
      said(j, o) == IF o = "thrown" THEN j
                    ELSE logSupabaseOperation(j, "order_orders", o = "ok")
      id     == IF e.station = "listed" THEN "id"
                ELSE IF e.station = "constructor" THEN "function"
                ELSE "null"
      sent   == IF id = "id" THEN "id" ELSE "null"
      order  == Insert("order_orders", "", 1)
  IN IF e.json = "garbage" THEN failed
     ELSE IF e.text /\ "pre" \in e.markers THEN [job EXCEPT !.done = TRUE]
     ELSE IF e.text /\ "checkout" \in e.markers THEN [job EXCEPT !.done = TRUE]
     ELSE IF e.type = "kitchenSlip" \/ (e.text /\ "slip" \in e.markers)
     THEN IF ~e.text THEN failed
          ELSE IF id # "null" /\ e.slipDishes > 0
          THEN IF o1 = "ok"
               THEN logSupabaseOperation(
                      one(Insert("order_dishes", sent, e.slipDishes)),
                      "order_dishes", TRUE)
               ELSE one(Insert("order_dishes", sent, e.slipDishes))
          ELSE [job EXCEPT !.done = TRUE]
     ELSE IF e.type \in {"order", ""} \/ (e.text /\ "order" \in e.markers)
     THEN IF o1 # "ok" THEN said(one(order), o1)
          ELSE IF e.text /\ e.orderDishes > 0
          THEN LET j == [said(job, o1) EXCEPT
                           !.inserts = <<order, Insert("order_dishes", "null",
                                                       e.orderDishes)>>,
                           !.caught = (o2 = "thrown"), !.done = TRUE]
               IN IF o2 = "ok"
                  THEN logSupabaseOperation(j, "order_dishes", TRUE) ELSE j
          ELSE said(one(order), o1)
     ELSE failed

----------------------------------------------------------------------------
\* The logger (logger.ts) and the calls made to it while streaming

\* the callers of flush() that can wait for it at the same time: the flush
\* test of processSSEStream, the end of processOrder, the heartbeat
Callers == {"stream", "order", "heartbeat"}

NoCall == [from |-> <<>>, cleared |-> FALSE, on |-> FALSE]

\* buffer: the records held, each the number of the log() call that made
\* it; since: Date.now() - lastFlushTime; stream: where the stream loop is;
\* ingests: the flush() calls waiting for client.ingest, each with the
\* buffer it found and whether the buffer was emptied since; sent: the
\* records of the batches client.ingest has delivered (history only; the
\* client reads the array it is given during the call); did: the last step
\* (history only)
Logger(enabled) ==
  [enabled |-> enabled, buffer |-> <<>>, next |-> 1, since |-> 0,
   stream |-> "read", ingests |-> [c \in Callers |-> NoCall], sent |-> {},
   did |-> [op |-> "init", size |-> 0, since |-> 0, flush |-> FALSE]]

NoLogger == [Logger(FALSE) EXCEPT !.stream = "off"]

Did(l, op) == [l EXCEPT !.did = [op |-> op, size |-> Len(l.buffer),
                                 since |-> l.since, flush |-> FALSE]]

\* AxiomLogger.log: the record is kept when the logger is enabled
log(l) ==
  IF l.enabled THEN [l EXCEPT !.buffer = Append(@, l.next), !.next = @ + 1]
  ELSE [l EXCEPT !.next = @ + 1]

RECURSIVE logs(_, _)
logs(l, k) == IF k = 0 THEN l ELSE logs(log(l), k - 1)

\* AxiomLogger.flush up to its await: it returns at once when the logger
\* is disabled or holds nothing
flush(l, caller) ==
  IF ~l.enabled \/ l.buffer = <<>> THEN l
  ELSE [l EXCEPT !.ingests[caller] =
                   [from |-> l.buffer, cleared |-> FALSE, on |-> TRUE]]

\* what the caller does when its flush() has returned
resume(l, caller) ==
  CASE caller = "stream" -> [l EXCEPT !.since = 0, !.stream = "tested"]
    [] caller = "order" -> [l EXCEPT !.stream = "read"]
    [] OTHER -> l

\* flush, then the caller's next statements if flush returned at once
flushFrom(l, caller) ==
  LET l1 == flush(l, caller)
  IN IF l1.ingests[caller].on
     THEN [l1 EXCEPT !.stream = IF caller = "stream" THEN "flush"
                                ELSE IF caller = "order" THEN "orderFlush"
                                ELSE @]
     ELSE resume(l1, caller)

\* ingestSettles, had the catch block emptied the buffer as well
ingestSettles_ClearsOnFailure(l, caller, outcome) ==
  resume([l EXCEPT !.buffer = <<>>, !.ingests[caller] = NoCall], caller)

\* AxiomLogger.flush after its await: client.ingest is over, with success
\* (the buffer is replaced by an empty one) or with an error (caught)
ingestSettles(l, caller, outcome) ==
  LET l1 == IF outcome = "ok"
            THEN [l EXCEPT !.buffer = <<>>,
                           !.sent = @ \cup {l.ingests[caller].from[k] :
                                              k \in DOMAIN l.ingests[caller].from},
                           !.ingests = [c \in Callers |->
                                          [@[c] EXCEPT !.cleared = @ \/ l.ingests[c].on]]]
            ELSE l
  IN resume([l1 EXCEPT !.ingests[caller] = NoCall], caller)

\* processSSEStream for a counted record: log the raw event, then flush if
\* the buffer holds more than 5 records or the last flush of this kind is
\* more than 30 s ago
rawEvent(l) ==
  LET l1   == log(l)
      test == Len(l1.buffer) > FlushSize \/ l1.since > FlushAge
      l2   == [Did(l1, "record") EXCEPT !.did.flush = test]
  IN IF test THEN flushFrom(l2, "stream") ELSE [l2 EXCEPT !.stream = "tested"]

\* processOrder: the calls of log it makes, then the flush if the buffer
\* holds something
processOrderLogs(l, k) ==
  LET l1 == logs(l, k)
  IN IF Len(l1.buffer) > 0 THEN flushFrom(l1, "order")
     ELSE [l1 EXCEPT !.stream = "read"]

\* sendHeartbeat of an active object: log, then flush if the buffer holds
\* something
heartbeatLogs(l) ==
  LET l1 == log(l)
  IN IF Len(l1.buffer) > 0 THEN flushFrom(l1, "heartbeat") ELSE l1

----------------------------------------------------------------------------
\* The framing of the stream (processSSEStream)

\* the bytes of the stream: an ASCII character that is no white space, a
\* space, a line feed, the first and the second byte of a two-byte character
Bytes == {"a", "s", "n", "L", "T"}

\* decoder.decode(value, {stream: true}) from the byte bs on: a first byte
\* at the end of a chunk is held for the next call; a first byte that no
\* second byte follows and a second byte on its own decode to U+FFFD ("?")
RECURSIVE decodeFrom(_, _, _)
decodeFrom(held, bs, acc) ==
  IF bs = <<>> THEN [text |-> acc, held |-> held]
  ELSE LET b == Head(bs) IN
       IF held
       THEN IF b = "T" THEN decodeFrom(FALSE, Tail(bs), Append(acc, "x"))
            ELSE decodeFrom(FALSE, bs, Append(acc, "?"))
       ELSE IF b = "L" THEN decodeFrom(TRUE, Tail(bs), acc)
       ELSE IF b = "T" THEN decodeFrom(FALSE, Tail(bs), Append(acc, "?"))
       ELSE decodeFrom(FALSE, Tail(bs), Append(acc, b))

decode(held, value) == decodeFrom(held, value, <<>>)

\* str.split('\n')
RECURSIVE split(_)
split(str) ==
  LET at == {k \in 1..Len(str) : str[k] = "n"} IN
  IF at = {} THEN <<str>>
  ELSE LET k == CHOOSE x \in at : \A y \in at : x <= y
       IN <<SubSeq(str, 1, k - 1)>> \o split(SubSeq(str, k + 1, Len(str)))

\* str.trim()
trim(str) ==
  LET ink == {k \in 1..Len(str) : str[k] # "s"} IN
  IF ink = {} THEN <<>>
  ELSE SubSeq(str, CHOOSE x \in ink : \A y \in ink : x <= y,
                   CHOOSE x \in ink : \A y \in ink : x >= y)

\* the lines of one chunk that reach JSON.parse: trimmed, the empty ones
\* skipped
RECURSIVE passed(_)
passed(lines) ==
  IF lines = <<>> THEN <<>>
  ELSE LET trimmedLine == trim(Head(lines)) IN
       (IF trimmedLine = <<>> THEN <<>> ELSE <<trimmedLine>>)
         \o passed(Tail(lines))

\* readChunk, had it kept no incomplete line for the next chunk
readChunk_DropsRest(f, value) ==
  LET d     == decode(f.held, value)
      lines == split(f.buffer \o d.text)
  IN [f EXCEPT !.held = d.held, !.buffer = <<>>,
               !.out = @ \o passed(SubSeq(lines, 1, Len(lines) - 1))]

\* readChunk, had it passed every line on
readChunk_NoBlankTest(f, value) ==
  LET d     == decode(f.held, value)
      lines == split(f.buffer \o d.text)
  IN [f EXCEPT !.held = d.held, !.buffer = lines[Len(lines)],
               !.out = @ \o [k \in 1..(Len(lines) - 1) |-> trim(lines[k])]]

\* one turn of the while loop for the chunk value: decode it, add it to
\* the buffer, split the buffer at the line feeds, keep the last piece and
\* pass the others on
readChunk(f, value) ==
  LET d     == decode(f.held, value)
      lines == split(f.buffer \o d.text)
  IN [f EXCEPT !.held = d.held, !.buffer = lines[Len(lines)],
               !.out = @ \o passed(SubSeq(lines, 1, Len(lines) - 1))]

----------------------------------------------------------------------------
\* The dish lines of a customer order (parseDishesFromText)

\* the characters of a dish line: a character of a name, a space, the
\* modifier mark '-', a unit glyph, the digits 0 and 1
Chars == {"a", "s", "-", "u", "0", "1"}

\* \d
DigitSeq == <<"0", "1", "2", "3", "4", "5", "6", "7", "8", "9">>
Digits == {DigitSeq[k] : k \in DOMAIN DigitSeq}

\* parseInt of one digit
parseInt(d) == (CHOOSE k \in DOMAIN DigitSeq : DigitSeq[k] = d) - 1

AllDigits(str) == \A k \in DOMAIN str : str[k] \in Digits

\* str is digits, a unit glyph, digits, with at least least digits first
DigitsUnitDigits(str, least) ==
  \E p \in DOMAIN str :
    /\ str[p] = "u" /\ p > least /\ p < Len(str)
    /\ AllDigits(SubSeq(str, 1, p - 1))
    /\ AllDigits(SubSeq(str, p + 1, Len(str)))

\* what follows the name in /^(.+?)(\d+)(\d)([unit])(\d+)$/
StrictTail(str) == DigitsUnitDigits(str, 2)
\* what follows the name in /^(.+?)(?:\d+[unit]\d+|\d+)$/
SimpleTail(str) ==
  DigitsUnitDigits(str, 1) \/ (str # <<>> /\ AllDigits(str))

\* the lengths the lazy (.+?) at the start of str can take in each
\* pattern; the match takes the least of them
StrictNames(str) ==
  {n \in 1..Len(str) : StrictTail(SubSeq(str, n + 1, Len(str)))}
SimpleNames(str) ==
  {n \in 1..Len(str) : SimpleTail(SubSeq(str, n + 1, Len(str)))}

Least(S) == CHOOSE n \in S : \A m \in S : n <= m

\* the body of the for loop of parseDishesFromText for one line: the
\* dishes it pushes
parseLine(line) ==
  LET trimmed == trim(line)
      strict  == StrictNames(trimmed)
      simple  == SimpleNames(trimmed)
  IN IF trimmed = <<>> THEN <<>>
     ELSE IF trimmed[1] = "-" THEN <<>>
     ELSE IF strict # {}
     THEN LET n        == Least(strict)
              name     == trim(SubSeq(trimmed, 1, n))
              unit     == CHOOSE p \in (n + 1)..Len(trimmed) : trimmed[p] = "u"
              quantity == parseInt(trimmed[unit - 1])
          IN IF name # <<>> /\ quantity > 0
             THEN <<[name |-> name, quantity |-> quantity]>>
             ELSE <<>>
     ELSE IF simple # {}
     THEN LET name == trim(SubSeq(trimmed, 1, Least(simple)))
          IN IF name # <<>> /\ name[1] \notin Digits
             THEN <<[name |-> name, quantity |-> 1]>>
             ELSE <<>>
     ELSE <<>>

\* the dishes of the lines of a dish section, in the order of the lines
RECURSIVE parseLines(_)
parseLines(lines) ==
  IF lines = <<>> THEN <<>>
  ELSE parseLine(Head(lines)) \o parseLines(Tail(lines))

\* A receipt body is its characters, "n" the newline; a token the code
\* looks for is one character: "T" is the label of the table number, "H" the
\* header of the dish section (it matches /菜品[单价]*数量[小计]*/), "F" its
\* footer, "O", "A", "K" the markers of a customer order, of added dishes
\* and of a kitchen slip, "C" the marker of a checkout receipt and "c"
\* the checkout word without its last glyph.
includes(text, c) == \E k \in DOMAIN text : text[k] = c

\* parseDishesFromText(text)
parseDishesFromText(text) ==
  LET foot(p) == {f \in (p + 2)..Len(text) : text[f] = "F"}
      heads   == {p \in 1..(Len(text) - 1) :
                    text[p] = "H" /\ text[p + 1] = "n" /\ foot(p) # {}}
  IN IF text = <<>> \/ heads = {} THEN <<>>
     ELSE LET p == Least(heads)
          IN parseLines(split(SubSeq(text, p + 2, Least(foot(p)) - 1)))

\* tableNo before the label is looked for
Unknown == <<"unknown">>

\* text.match(/T\s*([^\n]+)/), the group trimmed: \s* takes the white
\* space after the label, newlines included, and gives back a space when
\* nothing else follows it
tableNo(text) ==
  LET white    == {"s", "n"}
      after(p) == {q \in (p + 1)..Len(text) :
                     /\ text[q] # "n"
                     /\ \A k \in (p + 1)..(q - 1) : text[k] \in white}
      labels   == {p \in DOMAIN text : text[p] = "T" /\ after(p) # {}}
  IN IF labels = {} THEN Unknown
     ELSE LET p     == Least(labels)
              ink   == {q \in after(p) : text[q] \notin white}
              from  == IF ink # {} THEN Least(ink)
                       ELSE CHOOSE q \in after(p) : \A r \in after(p) : r <= q
              stops == {k \in from..Len(text) : text[k] = "n"}
              to    == IF stops = {} THEN Len(text) ELSE Least(stops) - 1
          IN trim(SubSeq(text, from, to))

\* orderType of processOrder
orderType(text) ==
  IF includes(text, "K") THEN "kitchen_slip"
  ELSE IF includes(text, "O") \/ includes(text, "A") THEN "customer_order"
  ELSE IF includes(text, "C") \/ includes(text, "c") THEN "checkout"
  ELSE "unknown"

\* orderData of processOrder, before its head has run
Receipt(text) ==
  [text |-> text, table_no |-> Unknown, type |-> "unknown",
   items |-> <<>>, done |-> FALSE]

\* the head of processOrder, to the point where orderData is enriched
enrich(r) ==
  IF includes(r.text, "C") THEN [r EXCEPT !.done = TRUE]
  ELSE IF r.text = <<>>
  THEN [r EXCEPT !.done = TRUE]
  ELSE [r EXCEPT !.table_no = tableNo(r.text), !.type = orderType(r.text),
                 !.items = parseDishesFromText(r.text), !.done = TRUE]

\* the lines of text joined by newlines
RECURSIVE Join(_)
Join(lines) ==
  IF lines = <<>> THEN <<>>
  ELSE IF Len(lines) = 1 THEN lines[1]
  ELSE lines[1] \o <<"n">> \o Join(Tail(lines))

\* the lines of the receipt body "桌号: 8", "客单", "野菜卷181份18",
\* "木姜子牛肉522份104", "合计: 122", "单号: C001"
Scenario ==
  << <<"T", "s", "8">>,
     <<"O">>,
     <<"a", "a", "a", "1", "8", "1", "u", "1", "8">>,
     <<"a", "a", "a", "a", "a", "5", "2", "2", "u", "1", "0", "4">>,
     <<"a", "a", "a", "s", "1", "2", "2">>,
     <<"a", "a", "a", "s", "a", "0", "0", "1">> >>

\* the lines of the receipt bodies followed: those of Scenario, the header
\* and the footer of the dish section
BodyLines == {Scenario[k] : k \in DOMAIN Scenario} \cup {<<"H">>, <<"F">>}

\* parseInt of a string of digits
RECURSIVE parseDigits(_)
parseDigits(str) ==
  IF str = <<>> THEN 0
  ELSE 10 * parseDigits(SubSeq(str, 1, Len(str) - 1)) + parseInt(str[Len(str)])

\* the dishes of one line of the dish section of a kitchen slip: on the
\* stream path the body of the for loop of processOrder, on the
\* process-order path that of parseKitchenSlipDishes, which skips the lines
\* that begin with '-'.  /\d+\/[unit].*$/ is removed from the name and
\* the digits of its leftmost match are the quantity.
parseSlipLine(line, path) ==
  LET trimmed == trim(line)
      slash(p) == {q \in (p + 1)..(Len(trimmed) - 1) :
                     /\ trimmed[q] = "/" /\ trimmed[q + 1] = "u"
                     /\ AllDigits(SubSeq(trimmed, p, q - 1))}
      at       == {p \in DOMAIN trimmed : slash(p) # {}}
      dishName == IF at = {} THEN trimmed
                  ELSE trim(SubSeq(trimmed, 1, Least(at) - 1))
      quantity == IF at = {} THEN 1
                  ELSE parseDigits(SubSeq(trimmed, Least(at),
                                          Least(slash(Least(at))) - 1))
  IN IF trimmed = <<>> THEN <<>>
     ELSE IF path = "order" /\ trimmed[1] = "-" THEN <<>>
     ELSE IF Len(dishName) > 1
     THEN <<[name |-> dishName, quantity |-> quantity]>>
     ELSE <<>>

\* the two kinds of receipt that carry dishes, on the two paths
Modes == {"customer", "slip"} \X {"stream", "order"}

\* the name and the quantity of the dish records sent to order_dishes for
\* one line of the dish section.  The stream path sends the dishes of a
\* customer order from orderData.items, quantity item.quantity || 1.
dishRecords(line, mode) ==
  IF mode[1] = "slip" THEN parseSlipLine(line, mode[2])
  ELSE LET items == parseLine(line)
       IN IF mode[2] = "order" THEN items
          ELSE [k \in DOMAIN items |->
                  [items[k] EXCEPT
                     !.quantity = IF @ = 0 THEN 1 ELSE @]]

\* a line of a dish section on its way to order_dishes
Sender(line, mode) ==
  [line |-> line, mode |-> mode, rows |-> <<>>, done |-> FALSE]

Parser(line) == [line |-> line, dishes |-> <<>>, done |-> FALSE]

NoParser == [Parser(<<>>) EXCEPT !.done = TRUE]

\* processSSEStream before its first read, the bytes input yet to arrive;
\* all and cuts are the bytes read so far and where the chunks ended
Framer(input) ==
  [input |-> input, held |-> FALSE, buffer |-> <<>>, out |-> <<>>,
   ended |-> FALSE, all |-> <<>>, cuts |-> {},
   conn |-> 1, before |-> 0, lost |-> <<>>]

\* processSSEStream, had its buffer outlived the invocation
processSSEStream_KeepsBuffer(f, input) ==
  [Framer(input) EXCEPT !.buffer = f.lost, !.conn = f.conn + 1,
                        !.before = f.before + Len(f.all), !.lost = f.lost]

\* processSSEStream called for the stream of the next connection: a new
\* reader, a new decoder and an empty buffer.  conn counts the
\* connections, before the bytes of the earlier ones, lost is what the
\* buffer of the last one held when it ended (history only).
processSSEStream(f, input) ==
  [Framer(input) EXCEPT !.conn = f.conn + 1,
                        !.before = f.before + Len(f.all), !.lost = f.lost]

NoFramer == [Framer(<<>>) EXCEPT !.ended = TRUE]

\* the state of the variables of the runs that follow one function when
\* they are not in use
Apart == framer = NoFramer /\ logger = NoLogger /\ parser = NoParser

----------------------------------------------------------------------------
\* The SSEListener object

EmptyStorage ==
  [activeConnection |-> FALSE, reconnectAttempts |-> 0,
   totalOrdersReceived |-> 0, totalReceived |-> 0, lastError |-> FALSE,
   ordersProcessed |-> 0, lastUpdate |-> FALSE]

\* lines: the lines of the chunk in hand that the for loop has not reached
Loop(pc, signal, delay) ==
  [pc |-> pc, signal |-> signal, delay |-> delay, job |-> NoJob,
   lines |-> <<>>]

\* an invocation suspended with a record in hand
LoopJ(pc, signal, job) == [Loop(pc, signal, 0) EXCEPT !.job = job]

One(x) == SetToBag({x})

\* the invocation cur moves on to the point new / returns / is called
Put(s, cur, new) == [s EXCEPT !.loops = (@ (-) One(cur)) (+) One(new)]
Drop(s, cur) == [s EXCEPT !.loops = @ (-) One(cur)]
Add(s, new) == [s EXCEPT !.loops = @ (+) One(new)]

\* a connection loop of the object is running
Live(s) == s.loops # EmptyBag

\* how many invocations are at one of the points pcs
CountAt(s, pcs) ==
  BagCardinality([r \in {x \in DOMAIN s.loops : x.pc \in pcs} |-> s.loops[r]])

\* AbortController.abort(): every fetch or stream read that was given the
\* signal of the current controller is rejected with AbortError
abort(s) ==
  LET B == s.loops
      a(r) == IF r.signal = "live" THEN [r EXCEPT !.signal = "aborted"] ELSE r
      copies(r) == IF r \in DOMAIN B THEN B[r] ELSE 0
  IN [s EXCEPT !.loops = [x \in {a(r) : r \in DOMAIN B} |->
        (IF x.signal # "live" THEN copies(x) ELSE 0)
        + (IF x.signal = "aborted"
           THEN copies([x EXCEPT !.signal = "live"]) ELSE 0)]]

\* the end of maintainSSEConnection: log 'disconnected', flush, return
exitLoop(s, cur) == Drop(s, cur)

\* the head of the while loop of maintainSSEConnection and the fetch it issues
loopTop(s, cur) ==
  IF s.activeConnection /\ s.reconnectAttempts < maxReconnectAttempts
  THEN Put(s, cur, Loop("Connecting",
                        IF s.abortController = "null" THEN "none" ELSE "live",
                        0))
  ELSE exitLoop(s, cur)

\* the head of the while loop of processSSEStream: read on, or return to
\* maintainSSEConnection, whose loop then iterates
streamLoop(s, cur) ==
  IF s.activeConnection
  THEN Put(s, cur, Loop("Streaming", cur.signal, 0))
  ELSE loopTop(s, cur)

\* connected, had it reset the counter in memory only
connected_MemoryOnly(s, cur) ==
  streamLoop([s EXCEPT !.reconnectAttempts = 0,
                       !.reconnectDelay = BaseDelay], cur)

\* a successful connection: reset the attempts, then process the stream
connected(s, cur) ==
  streamLoop([s EXCEPT !.reconnectAttempts = 0,
                       !.storage.reconnectAttempts = 0,
                       !.reconnectDelay = BaseDelay], cur)

\* backoffDelay, had it raised 1.5 to reconnectAttempts
backoffDelay_OffByOne(s) ==
  LET k   == s.reconnectAttempts
      num == s.reconnectDelay * Pow(3, k)
      den == Pow(2, k)
  IN IF num >= MaxDelay * den
     THEN MaxDelay * DelayUnit
     ELSE (num * DelayUnit) \div den

\* Math.min(reconnectDelay * 1.5^(reconnectAttempts - 1), 60000)
backoffDelay(s) ==
  LET k   == s.reconnectAttempts - 1
      num == s.reconnectDelay * Pow(3, k)
      den == Pow(2, k)
  IN IF num >= MaxDelay * den
     THEN MaxDelay * DelayUnit
     ELSE (num * DelayUnit) \div den

\* countFailure, had it not deactivated the supervisor at the ceiling
countFailure_NoCeiling(s, cur) ==
  LET n  == s.reconnectAttempts + 1
      s1 == [s EXCEPT !.reconnectAttempts = n,
                      !.storage.reconnectAttempts = n,
                      !.storage.lastError = TRUE]
  IN Put(s1, cur, Loop("BackoffWait", "none", backoffDelay(s1)))

\* the catch block after its flush: count the failure, stop at the ceiling,
\* otherwise wait
countFailure(s, cur) ==
  LET n  == s.reconnectAttempts + 1
      s1 == [s EXCEPT !.reconnectAttempts = n,
                      !.storage.reconnectAttempts = n,
                      !.storage.lastError = TRUE]
  IN IF n >= maxReconnectAttempts
     THEN exitLoop([s1 EXCEPT !.activeConnection = FALSE,
                              !.storage.activeConnection = FALSE], cur)
     ELSE Put(s1, cur, Loop("BackoffWait", "none", backoffDelay(s1)))

\* catch, had it not tested the error's name
catch_NoAbortTest(s, cur, err) ==
  IF ~s.activeConnection THEN exitLoop(s, cur)
  ELSE IF s.enabled THEN Put(s, cur, Loop("catchFlush", "none", 0))
  ELSE countFailure(s, cur)

\* the catch block of maintainSSEConnection up to its flush
catch(s, cur, err) ==
  IF ~s.activeConnection THEN exitLoop(s, cur)
  ELSE IF err = "AbortError" THEN exitLoop(s, cur)
  ELSE IF s.enabled THEN Put(s, cur, Loop("catchFlush", "none", 0))
  ELSE countFailure(s, cur)

\* the awaited fetch settles: a stream, an HTTP or network error, or the abort
fetchSettles(s, cur, outcome) ==
  CASE outcome = "ok" -> connected(s, cur)
    [] outcome = "error" -> catch(s, cur, "Error")
    [] OTHER -> catch(s, cur, "AbortError")

\* the invocation waits at an await with the record in hand
suspend(s, cur, pc, job) ==
  Put(s, cur, [LoopJ(pc, cur.signal, job) EXCEPT !.lines = cur.lines])

RECURSIVE record(_, _, _, _)

\* the record is dealt with: the for loop over the lines goes on with the
\* next line, and with no line left the while loop of processSSEStream is
\* at its head again
finish(s, cur, job) ==
  LET s1 == [s EXCEPT !.finished = [job EXCEPT !.done = TRUE]]
  IN IF cur.lines = <<>> THEN streamLoop(s1, cur)
     ELSE LET c1 == [Loop("Streaming", cur.signal, 0)
                       EXCEPT !.lines = Tail(cur.lines)]
          IN record(Put(s1, cur, c1), c1,
                    Head(cur.lines).e, Head(cur.lines).flushNow)

\* stationMap[stationName]: an id for a key of the table, undefined for
\* another name, the inherited property for a name like 'constructor'
stationMap(name) ==
  CASE name = "listed" -> "id"
    [] name = "constructor" -> "function"
    [] OTHER -> "undefined"

\* JSON.stringify of a row: a station_id that is a function is left out
stationSent(v) == IF v = "id" THEN "id" ELSE "null"

\* orderCatch, had processOrder let the error reach maintainSSEConnection
orderCatch_Rethrows(s, cur, job) == catch(s, cur, "Error")

\* the end of processOrder's try block: flush what the logger holds
orderFlush(s, cur, job) ==
  IF s.enabled THEN suspend(s, cur, "doneFlush", job) ELSE finish(s, cur, job)

\* the catch block of processOrder: log the error, flush
orderCatch(s, cur, job) ==
  LET j == [job EXCEPT !.caught = TRUE]
  IN IF s.enabled THEN suspend(s, cur, "doneFlush", j) ELSE finish(s, cur, j)

\* the for loop over the dish lines of a kitchen slip: one insert per dish
slipNext(s, cur, job) ==
  IF job.left > 0
  THEN suspend(s, cur, "slipInsert",
               [job EXCEPT !.left = @ - 1,
                           !.inserts = Append(@,
                             Insert("order_dishes",
                                    stationSent(stationMap(job.e.station)), 1))])
  ELSE orderFlush(s, cur, job)

\* processOrder: if (isKitchenSlip) { ... }
kitchenSlip(s, cur, job) ==
  IF "slip" \in job.e.markers
       /\ job.e.station # "none" /\ stationMap(job.e.station) # "undefined"
  THEN slipNext(s, cur, [job EXCEPT !.left = job.e.slipDishes])
  ELSE orderFlush(s, cur, job)

\* processOrder after the dishes of a customer order: count the order
afterDishes(s, cur, job) ==
  kitchenSlip([s EXCEPT !.storage.ordersProcessed = @ + 1,
                        !.storage.lastUpdate = TRUE], cur, job)

\* orderSettles, had it issued the insert again after a failure
orderSettles_Retries(s, cur, outcome) ==
  LET job == IF outcome = "thrown" THEN cur.job
             ELSE logSupabaseOperation(cur.job, "order_orders", outcome = "ok")
  IN
  IF outcome # "ok"
  THEN suspend(s, cur, "orderInsert",
               [job EXCEPT !.inserts = Append(@, Insert("order_orders", "", 1))])
  ELSE IF job.e.orderDishes > 0
  THEN suspend(s, cur, "dishInsert",
               [job EXCEPT !.inserts = Append(@,
                  Insert("order_dishes", "null", job.e.orderDishes))])
  ELSE afterDishes(s, cur, job)

\* the insert of the order settles: 2xx, another status, or no response
orderSettles(s, cur, outcome) ==
  LET job == IF outcome = "thrown" THEN cur.job
             ELSE logSupabaseOperation(cur.job, "order_orders", outcome = "ok")
  IN
  IF outcome # "ok" THEN orderCatch(s, cur, job)
  ELSE IF job.e.orderDishes > 0
  THEN suspend(s, cur, "dishInsert",
               [job EXCEPT !.inserts = Append(@,
                  Insert("order_dishes", "null", job.e.orderDishes))])
  ELSE afterDishes(s, cur, job)

\* the insert of a customer order's dishes settles: only a 2xx answer is
\* reported to the logger
dishSettles(s, cur, outcome) ==
  IF outcome = "thrown" THEN orderCatch(s, cur, cur.job)
  ELSE IF outcome = "ok"
  THEN afterDishes(s, cur, logSupabaseOperation(cur.job, "order_dishes", TRUE))
  ELSE afterDishes(s, cur, cur.job)

\* the insert of one kitchen-slip dish settles
slipSettles(s, cur, outcome) ==
  IF outcome = "thrown" THEN orderCatch(s, cur, cur.job)
  ELSE slipNext(s, cur,
         logSupabaseOperation(cur.job, "order_dishes", outcome = "ok"))

\* processOrder up to its first await
processOrder(s, cur, job) ==
  IF "checkout" \in job.e.markers THEN finish(s, cur, job)
  ELSE IF "order" \in job.e.markers \/ "add" \in job.e.markers
  THEN suspend(s, cur, "orderInsert",
               [job EXCEPT !.inserts = Append(@, Insert("order_orders", "", 1))])
  ELSE kitchenSlip(s, cur, job)

\* afterFlush, had it not tested receipt_no
afterFlush_NoReceiptTest(s, cur, job) ==
  IF ~job.e.text THEN finish(s, cur, job)
  ELSE processOrder(s, cur, job)

\* afterFlush, had it called processOrder without awaiting it
afterFlush_NotAwaited(s, cur, job) ==
  IF ~job.e.receipt \/ ~job.e.text THEN finish(s, cur, job)
  ELSE LET own == LoopJ("Streaming", "none", job)
       IN finish(processOrder(Add(s, own), own, job), cur, job)

\* a counted record after the flush test: skipped without receipt_no or
\* without plain_text, handed to processOrder otherwise
afterFlush(s, cur, job) ==
  IF ~job.e.receipt \/ ~job.e.text THEN finish(s, cur, job)
  ELSE processOrder(s, cur, job)

\* record, had it counted the record before the test for the sentinel
record_CountsSentinel(s, cur, e, flushNow) ==
  IF e.json = "garbage" THEN finish(s, cur, [NewJob(e) EXCEPT !.caught = TRUE])
  ELSE LET n  == s.totalOrdersReceived + 1
           s1 == [s EXCEPT !.totalOrdersReceived = n,
                           !.storage.totalReceived = n]
       IN IF e.type = "connected" THEN finish(s1, cur, NewJob(e))
          ELSE IF s.enabled /\ flushNow
          THEN suspend(s1, cur, "recordFlush", NewJob(e))
          ELSE afterFlush(s1, cur, NewJob(e))

\* one record of a chunk: a line that does not parse is logged; the sentinel
\* is skipped; an event is counted and logged, and the logger is flushed
\* when the buffer or the clock says so
record(s, cur, e, flushNow) ==
  IF e.json = "garbage" THEN finish(s, cur, [NewJob(e) EXCEPT !.caught = TRUE])
  ELSE IF e.type = "connected" THEN finish(s, cur, NewJob(e))
  ELSE LET n  == s.totalOrdersReceived + 1
           s1 == [s EXCEPT !.totalOrdersReceived = n,
                           !.storage.totalReceived = n]
       IN IF s.enabled /\ flushNow
          THEN suspend(s1, cur, "recordFlush", NewJob(e))
          ELSE afterFlush(s1, cur, NewJob(e))

\* the awaited reader.read() settles with a chunk of several lines
readLines(s, cur, lines) ==
  LET c1 == [cur EXCEPT !.lines = Tail(lines)]
  IN record(Put(s, cur, c1), c1, Head(lines).e, Head(lines).flushNow)

\* the awaited reader.read() settles
readSettles(s, cur, outcome, e, flushNow) ==
  CASE outcome = "done" -> loopTop(s, cur)
    [] outcome = "error" -> catch(s, cur, "Error")
    [] outcome = "chunk" -> record(s, cur, e, flushNow)
    [] OTHER -> catch(s, cur, "AbortError")

\* this.maintainSSEConnection() called from startSSEConnection
launch(s) ==
  LET new == Loop("called", "none", 0)
  IN [loopTop(Add(s, new), new) EXCEPT !.startPc = "idle"]

\* startSSEConnection, had it set activeConnection in memory only
startSSEConnection_MemoryOnly(s) ==
  IF s.activeConnection THEN [s EXCEPT !.startPc = "idle"]
  ELSE LET s1 == [s EXCEPT !.activeConnection = TRUE]
           s2 == IF s1.abortController # "null" THEN abort(s1) ELSE s1
           s3 == [s2 EXCEPT !.abortController = "set"]
       IN IF s3.enabled THEN [s3 EXCEPT !.startPc = "connFlush"]
          ELSE launch(s3)

startSSEConnection(s) ==
  IF s.activeConnection THEN [s EXCEPT !.startPc = "idle"]
  ELSE LET s1 == [s EXCEPT !.activeConnection = TRUE,
                           !.storage.activeConnection = TRUE]
           s2 == IF s1.abortController # "null" THEN abort(s1) ELSE s1
           s3 == [s2 EXCEPT !.abortController = "set"]
       IN IF s3.enabled THEN [s3 EXCEPT !.startPc = "connFlush"]
          ELSE launch(s3)

\* handleStart, had it not tested activeConnection
handleStart_NoGuard(s) ==
  IF s.enabled THEN [s EXCEPT !.startPc = "testFlush"]
  ELSE startSSEConnection(s)

handleStart(s) ==
  IF s.activeConnection THEN s
  ELSE IF s.enabled THEN [s EXCEPT !.startPc = "testFlush"]
  ELSE startSSEConnection(s)

\* the body of the response of handleStart ("pending": not returned yet)
startResponse(s, s2) ==
  IF s.activeConnection THEN "connected"
  ELSE IF s2.startPc = "idle" THEN "connecting" ELSE "pending"

\* handleStop, had it not written activeConnection to storage
handleStop_MemoryOnly(s) ==
  LET s1 == IF s.abortController # "null"
            THEN [abort(s) EXCEPT !.abortController = "null"]
            ELSE s
  IN [s1 EXCEPT !.activeConnection = FALSE]

handleStop(s) ==
  LET s1 == IF s.abortController # "null"
            THEN [abort(s) EXCEPT !.abortController = "null"]
            ELSE s
  IN [s1 EXCEPT !.activeConnection = FALSE,
                !.storage.activeConnection = FALSE]

\* handleStatus, had it cleared the stored error time it reports
handleStatus_ClearsError(s) == [s EXCEPT !.storage.lastError = FALSE]

\* handleStatus reads three storage keys and the object's fields
handleStatus(s) == s

\* the body of the response of handleStatus
statusResponse(s) ==
  [connected |-> s.activeConnection,
   reconnectAttempts |-> s.reconnectAttempts,
   lastUpdate |-> s.storage.lastUpdate,
   lastError |-> s.storage.lastError,
   ordersProcessed |-> s.storage.ordersProcessed,
   totalReceived |-> s.totalOrdersReceived]

\* the end of sendHeartbeat: persist the counter, schedule the next tick
heartbeatPersist(s) ==
  [s EXCEPT !.storage.totalOrdersReceived = s.totalOrdersReceived,
            !.heartbeat = "armed"]

\* the 5-minute timer of setupHeartbeat fires: an inactive object schedules
\* no further tick; an active one logs, flushes what the logger holds and
\* persists the counter
sendHeartbeat(s) ==
  IF ~s.activeConnection THEN [s EXCEPT !.heartbeat = "off"]
  ELSE IF s.enabled THEN [s EXCEPT !.heartbeat = "flush"]
  ELSE heartbeatPersist(s)

\* the field initialisers of the class
fresh(storage, enabled) ==
  [activeConnection |-> FALSE, reconnectAttempts |-> 0,
   reconnectDelay |-> BaseDelay, abortController |-> "null",
   totalOrdersReceived |-> 0, enabled |-> enabled, storage |-> storage,
   loops |-> EmptyBag, startPc |-> "idle", heartbeat |-> "armed",
   finished |-> NoJob]

\* the callback given to blockConcurrencyWhile
restore(s) ==
  [s EXCEPT !.activeConnection = s.storage.activeConnection,
            !.reconnectAttempts = s.storage.reconnectAttempts,
            !.totalOrdersReceived = s.storage.totalOrdersReceived]

\* the constructor: its body runs to the end before the callback given to
\* blockConcurrencyWhile gets past its first await, so the auto-start test
\* reads the field initialiser
constructor(storage, enabled) ==
  LET s0 == fresh(storage, enabled)
      s1 == IF s0.activeConnection THEN startSSEConnection(s0) ELSE s0
  IN restore(s1)

----------------------------------------------------------------------------
\* History

\* the step issued a connection attempt
Issued(s, s2) == CountAt(s2, {"Connecting"}) > CountAt(s, {"Connecting"})

NoHist ==
  [lastControl |-> "none", exhausted |-> FALSE, afterExhaustion |-> FALSE,
   launched |-> FALSE, attempted |-> FALSE, resume |-> FALSE,
   fails |-> 0, lastDelay |-> 0]

NextHist(h, s, s2, op) ==
  LET startEffect == op # "restart" /\ ~s.activeConnection /\ s2.activeConnection
      stopEffect  == op = "stop"
      failure     == op # "restart" /\ s2.reconnectAttempts > s.reconnectAttempts
      exhaustion  == failure /\ s2.reconnectAttempts >= maxReconnectAttempts
      success     == op = "fetch.ok"
      launchedNow == \/ op = "start.connFlush"
                     \/ startEffect /\ s2.startPc = "idle"
      waits       == {r \in DOMAIN s2.loops :
                        /\ r.pc = "BackoffWait"
                        /\ \/ r \notin DOMAIN s.loops
                           \/ s2.loops[r] > s.loops[r]}
  IN [lastControl |-> IF startEffect THEN "start"
                      ELSE IF stopEffect THEN "stop" ELSE h.lastControl,
      exhausted |-> IF startEffect THEN FALSE
                    ELSE IF exhaustion THEN TRUE ELSE h.exhausted,
      afterExhaustion |-> IF startEffect THEN h.exhausted
                          ELSE IF stopEffect \/ op = "restart" THEN FALSE
                          ELSE h.afterExhaustion,
      launched |-> IF launchedNow THEN TRUE
                   ELSE IF startEffect \/ stopEffect \/ op = "restart" THEN FALSE
                   ELSE h.launched,
      attempted |-> IF launchedNow THEN Issued(s, s2)
                    ELSE IF startEffect \/ stopEffect \/ op = "restart" THEN FALSE
                    ELSE h.attempted,
      resume |-> IF op = "restart"
                 THEN /\ s2.storage.activeConnection
                      /\ s2.storage.reconnectAttempts < maxReconnectAttempts
                 ELSE IF op \in {"start", "stop"} \/ Issued(s, s2) THEN FALSE
                 ELSE h.resume,
      fails |-> IF success THEN 0
                ELSE IF failure THEN h.fails + 1 ELSE h.fails,
      lastDelay |-> IF failure /\ waits # {}
                    THEN (CHOOSE r \in waits : TRUE).delay
                    ELSE IF failure \/ success THEN 0 ELSE h.lastDelay]

\* a step of the object i; the record whose handling ended in the step is
\* kept with the step
Step(i, op, s2, resp) ==
  /\ objs' = [objs EXCEPT ![i] = [s2 EXCEPT !.finished = NoJob]]
  /\ hist' = [hist EXCEPT ![i] = NextHist(hist[i], objs[i], s2, op)]
  /\ last' = [op |-> op, i |-> i, resp |-> resp,
              issued |-> Issued(objs[i], s2),
              from |-> IF op = "fetch.ok" THEN objs[i].reconnectAttempts ELSE 0,
              job |-> s2.finished]
  /\ UNCHANGED <<routes, apart>>

----------------------------------------------------------------------------
\* Actions

\* POST <route>start
Start(r) ==
  LET i == DOForRoute(r)  s == objs[i]  s2 == handleStart(s) IN
  /\ r \in routes
  /\ \/ s.activeConnection
     \/ s.startPc = "idle" /\ BagCardinality(s.loops) < MaxLoops
  /\ Step(i, "start", s2, startResponse(s, s2))

\* the flush of handleStart's test event is over
StartTestFlushed(i) ==
  LET s == objs[i]  s2 == startSSEConnection(s) IN
  /\ s.startPc = "testFlush"
  /\ Step(i, "start.testFlush", s2,
          IF s2.startPc = "idle" THEN "connecting" ELSE "pending")

\* the flush of startSSEConnection is over
StartConnFlushed(i) ==
  LET s == objs[i] IN
  /\ s.startPc = "connFlush"
  /\ Step(i, "start.connFlush", launch(s), "connecting")

\* POST <route>stop
Stop(r) ==
  LET i == DOForRoute(r) IN
  /\ r \in routes
  /\ Step(i, "stop", handleStop(objs[i]), "disconnected")

FetchSettles(i) ==
  LET s == objs[i] IN
  \E cur \in DOMAIN s.loops :
    /\ cur.pc = "Connecting"
    /\ \E outcome \in (IF cur.signal = "aborted"
                       THEN {"AbortError"} ELSE {"ok", "error"}) :
         Step(i, IF outcome = "AbortError" THEN "fetch.abort"
                 ELSE "fetch." \o outcome,
              fetchSettles(s, cur, outcome), "")

\* the stream read of a connection settles: the stream is over, the read
\* fails or is aborted, or a chunk with one of the records evs arrives, of
\* which at most cap are counted
ReadSettlesWith(i, evs, cap) ==
  LET s == objs[i] IN
  \E cur \in DOMAIN s.loops :
    /\ cur.pc = "Streaming"
    /\ \E outcome \in (IF cur.signal = "aborted"
                       THEN {"AbortError"} ELSE {"done", "error", "chunk"}),
          e \in evs, flushNow \in BOOLEAN :
         LET kind == IF e.json = "garbage" THEN "garbage"
                     ELSE IF e.type = "connected" THEN "sentinel" ELSE "event"
         IN /\ outcome # "chunk" => e = SentinelEvent /\ ~flushNow
            /\ flushNow => kind = "event" /\ s.enabled
            /\ kind = "event" => s.totalOrdersReceived < cap
            /\ Step(i, IF outcome = "AbortError" THEN "read.abort"
                       ELSE IF outcome = "chunk" THEN "read." \o kind
                       ELSE "read." \o outcome,
                    readSettles(s, cur, outcome, e, flushNow), "")

\* the records are the sentinel and events without receipt_no
ReadSettles(i) == ReadSettlesWith(i, {SentinelEvent, SkippedEvent}, MaxEvents)

RecordFlushed(i) ==
  LET s == objs[i] IN
  \E cur \in DOMAIN s.loops :
    /\ cur.pc = "recordFlush"
    /\ Step(i, "recordFlush", afterFlush(s, cur, cur.job), "")

\* the records are those of SampleEvents
ReadRecord(i) == ReadSettlesWith(i, SampleEvents, MaxRecords)

\* the first record of a connection, any of StreamEvents
ReadFirst(i) == last.op = "init" /\ ReadSettlesWith(i, StreamEvents, MaxRecords)

\* the stream read of a connection settles with a chunk of several lines
ReadLines(i) ==
  LET s == objs[i] IN
  \E cur \in DOMAIN s.loops :
    /\ cur.pc = "Streaming" /\ cur.signal # "aborted"
    /\ \E lines \in Chunks :
         /\ s.totalOrdersReceived + Len(lines) <= MaxRecords
         /\ \A k \in DOMAIN lines : lines[k].flushNow => s.enabled
         /\ Step(i, "read.lines", readLines(s, cur, lines), lines)

\* the stream read settles with the sentinel, the end of the stream, an
\* error or the abort
ReadEnd(i) == ReadSettlesWith(i, {SentinelEvent}, MaxRecords)

\* the responses of the destination store to an insert
Outcomes == {"ok", "rejected", "thrown"}

\* POST /api/process-order with the body e
ProcessOrderRoute ==
  /\ last.op = "init"
  /\ \E e \in Events, o1 \in Outcomes, o2 \in Outcomes :
       last' = [op |-> "process-order", i |-> "worker", resp |-> "",
                issued |-> FALSE, from |-> 0,
                job |-> processOrderToSupabase(e, o1, o2)]
  /\ UNCHANGED <<objs, routes, hist, apart>>

OrderInsertSettles(i) ==
  LET s == objs[i] IN
  \E cur \in DOMAIN s.loops, outcome \in Outcomes :
    /\ cur.pc = "orderInsert"
    /\ Step(i, "insert.order." \o outcome, orderSettles(s, cur, outcome), "")

DishInsertSettles(i) ==
  LET s == objs[i] IN
  \E cur \in DOMAIN s.loops, outcome \in Outcomes :
    /\ cur.pc = "dishInsert"
    /\ Step(i, "insert.dishes." \o outcome, dishSettles(s, cur, outcome), "")

SlipInsertSettles(i) ==
  LET s == objs[i] IN
  \E cur \in DOMAIN s.loops, outcome \in Outcomes :
    /\ cur.pc = "slipInsert"
    /\ Step(i, "insert.slip." \o outcome, slipSettles(s, cur, outcome), "")

\* the flush that ends processOrder is over
DoneFlushed(i) ==
  LET s == objs[i] IN
  \E cur \in DOMAIN s.loops :
    /\ cur.pc = "doneFlush"
    /\ Step(i, "doneFlush", finish(s, cur, cur.job), "")

CatchFlushed(i) ==
  LET s == objs[i] IN
  \E cur \in DOMAIN s.loops :
    /\ cur.pc = "catchFlush"
    /\ Step(i, "catchFlush", countFailure(s, cur), "")

TimerFires(i) ==
  LET s == objs[i] IN
  \E cur \in DOMAIN s.loops :
    /\ cur.pc = "BackoffWait"
    /\ Step(i, "timer", loopTop(s, cur), "")

\* GET <route>status
Status(r) ==
  LET i == DOForRoute(r)  s == objs[i] IN
  /\ r \in routes
  /\ Step(i, "status", handleStatus(s), statusResponse(s))

\* a Durable Object is constructed when the first request for its name
\* arrives: only the names a route in use resolves to have an object
Constructed(i) == \E r \in routes : DOForRoute(r) = i

HeartbeatFires(i) ==
  LET s == objs[i] IN
  /\ Constructed(i)
  /\ s.heartbeat = "armed"
  /\ Step(i, "heartbeat", sendHeartbeat(s), "")

\* the flush of sendHeartbeat is over
HeartbeatFlushed(i) ==
  LET s == objs[i] IN
  /\ s.heartbeat = "flush"
  /\ Step(i, "heartbeat.flush", heartbeatPersist(s), "")

\* the object is evicted or crashes and is constructed again from storage
Restart(i) ==
  LET s == objs[i] IN
  /\ Constructed(i)
  /\ s # constructor(s.storage, s.enabled)
  /\ Step(i, "restart", constructor(s.storage, s.enabled), "")

InitWith(rs, en) ==
  /\ Apart
  /\ routes \in rs
  /\ \E e \in en : objs = [i \in DONames |-> constructor(EmptyStorage, e)]
  /\ hist = [i \in DONames |-> NoHist]
  /\ last = [op |-> "init", i |-> "singleton", resp |-> "", issued |-> FALSE,
             from |-> 0, job |-> NoJob]

\* a deployment whose operator calls the /api/sse/ routes
Init == InitWith({{"/api/sse/"}}, BOOLEAN)

Next ==
  \/ \E r \in Routes : Start(r)
  \/ \E r \in Routes : Stop(r)
  \/ \E i \in DONames : StartTestFlushed(i)
  \/ \E i \in DONames : StartConnFlushed(i)
  \/ \E i \in DONames : FetchSettles(i)
  \/ \E i \in DONames : ReadSettles(i)
  \/ \E i \in DONames : RecordFlushed(i)
  \/ \E i \in DONames : CatchFlushed(i)
  \/ \E i \in DONames : TimerFires(i)
  \/ \E i \in DONames : Restart(i)
  \/ \E r \in Routes : Status(r)

\* the runs in which the 5-minute heartbeat timer does not fire
Spec == Init /\ [][Next]_vars

NextHeartbeat ==
  \/ Next
  \/ \E i \in DONames : HeartbeatFires(i)
  \/ \E i \in DONames : HeartbeatFlushed(i)

\* all runs, heartbeat ticks included
SpecHeartbeat == Init /\ [][NextHeartbeat]_vars

TypeOK ==
  /\ routes \subseteq Routes
  /\ \A i \in DONames :
       /\ objs[i].activeConnection \in BOOLEAN
       /\ objs[i].reconnectAttempts \in 0..(maxReconnectAttempts + MaxLoops)
       /\ objs[i].totalOrdersReceived \in 0..(MaxEvents + MaxRecords)
       /\ objs[i].storage.totalOrdersReceived \in 0..(MaxEvents + MaxRecords)
       /\ objs[i].storage.totalReceived \in 0..(MaxEvents + MaxRecords)
       /\ objs[i].finished = NoJob
       /\ objs[i].heartbeat \in {"armed", "flush", "off"}
       /\ BagCardinality(objs[i].loops) <= MaxLoops
       /\ \A r \in DOMAIN objs[i].loops : r.pc \in
            {"Connecting", "Streaming", "recordFlush", "catchFlush",
             "BackoffWait", "orderInsert", "dishInsert", "slipInsert",
             "doneFlush"}

\* both route families in use, the logger disabled; the runs in which no
\* stream read settles, no backoff timer fires and no object restarts
InitRoutes == InitWith({Routes}, {FALSE})

NextRoutes ==
  \/ \E r \in Routes : Start(r)
  \/ \E r \in Routes : Stop(r)
  \/ \E i \in DONames : FetchSettles(i)

SpecRoutes == InitRoutes /\ [][NextRoutes]_vars

\* POST <route>start while no connection loop of the object is left over
StartOne(r) == ~Live(objs[DOForRoute(r)]) /\ Start(r)

\* the records of the stream followed through processOrder; the runs in
\* which start() finds no loop left over, no backoff timer fires, the
\* object is not restarted and status() is not asked for
NextStream ==
  \/ \E r \in Routes : StartOne(r)
  \/ \E r \in Routes : Stop(r)
  \/ \E i \in DONames : StartTestFlushed(i)
  \/ \E i \in DONames : StartConnFlushed(i)
  \/ \E i \in DONames : FetchSettles(i)
  \/ \E i \in DONames : ReadRecord(i)
  \/ \E i \in DONames : RecordFlushed(i)
  \/ \E i \in DONames : OrderInsertSettles(i)
  \/ \E i \in DONames : DishInsertSettles(i)
  \/ \E i \in DONames : SlipInsertSettles(i)
  \/ \E i \in DONames : DoneFlushed(i)
  \/ \E i \in DONames : CatchFlushed(i)

SpecStream == Init /\ [][NextStream]_vars

\* the chunks of the stream followed line by line through processOrder;
\* the runs of SpecStream with chunks of up to MaxLines lines
NextChunks ==
  \/ \E r \in Routes : StartOne(r)
  \/ \E r \in Routes : Stop(r)
  \/ \E i \in DONames : StartTestFlushed(i)
  \/ \E i \in DONames : StartConnFlushed(i)
  \/ \E i \in DONames : FetchSettles(i)
  \/ \E i \in DONames : ReadLines(i)
  \/ \E i \in DONames : ReadEnd(i)
  \/ \E i \in DONames : RecordFlushed(i)
  \/ \E i \in DONames : OrderInsertSettles(i)
  \/ \E i \in DONames : DishInsertSettles(i)
  \/ \E i \in DONames : SlipInsertSettles(i)
  \/ \E i \in DONames : DoneFlushed(i)
  \/ \E i \in DONames : CatchFlushed(i)

SpecChunks == Init /\ [][NextChunks]_vars

\* the object after start() and a successful connection attempt
Streaming0(en) ==
  LET s1  == handleStart(constructor(EmptyStorage, en))
      s2  == IF s1.startPc = "testFlush" THEN startSSEConnection(s1) ELSE s1
      s3  == IF s2.startPc = "connFlush" THEN launch(s2) ELSE s2
      cur == CHOOSE r \in DOMAIN s3.loops : TRUE
  IN fetchSettles(s3, cur, "ok")

\* one record followed from its arrival to the end of its handling, on the
\* stream of a connected supervisor or as the body of /api/process-order
InitRecords ==
  /\ Apart
  /\ routes = {"/api/sse/"}
  /\ \E en \in BOOLEAN :
       objs = [i \in DONames |-> IF i = "singleton" THEN Streaming0(en)
                                ELSE constructor(EmptyStorage, en)]
  /\ hist = [i \in DONames |-> NoHist]
  /\ last = [op |-> "init", i |-> "singleton", resp |-> "", issued |-> FALSE,
             from |-> 0, job |-> NoJob]

NextRecords ==
  \/ \E i \in DONames : ReadFirst(i)
  \/ \E i \in DONames : RecordFlushed(i)
  \/ \E i \in DONames : OrderInsertSettles(i)
  \/ \E i \in DONames : DishInsertSettles(i)
  \/ \E i \in DONames : SlipInsertSettles(i)
  \/ \E i \in DONames : DoneFlushed(i)
  \/ ProcessOrderRoute

SpecRecords == InitRecords /\ [][NextRecords]_vars

\* the state of the objects and the history while one function is followed
Quiet ==
  /\ routes = {"/api/sse/"}
  /\ objs = [i \in DONames |-> constructor(EmptyStorage, FALSE)]
  /\ hist = [i \in DONames |-> NoHist]
  /\ last = [op |-> "init", i |-> "singleton", resp |-> "", issued |-> FALSE,
             from |-> 0, job |-> NoJob]

\* reader.read() yields the next bytes of the stream as one chunk
ReadChunk ==
  /\ ~framer.ended
  /\ \E k \in 1..Len(framer.input) :
       LET value == SubSeq(framer.input, 1, k)
           f     == readChunk(framer, value)
       IN framer' = [f EXCEPT !.input = SubSeq(@, k + 1, Len(@)),
                              !.all = @ \o value,
                              !.cuts = @ \cup {Len(framer.all) + k}]
  /\ UNCHANGED <<objs, routes, hist, last, logger, parser>>

\* reader.read() yields done: the loop is left, the buffer with it
ReadDone ==
  /\ ~framer.ended /\ framer.input = <<>>
  /\ framer' = [framer EXCEPT !.ended = TRUE, !.buffer = <<>>,
                               !.held = FALSE, !.lost = framer.buffer]
  /\ UNCHANGED <<objs, routes, hist, last, logger, parser>>

\* a line of the stream is counted
StreamRecord ==
  /\ logger.stream = "read" /\ logger.next <= MaxLogs
  /\ logger' = rawEvent(logger)
  /\ UNCHANGED <<objs, routes, hist, last, framer, parser>>

\* the record has no receipt_no or no plain_text; with the pre-checkout
\* token it is logged
RecordSkipped ==
  /\ logger.stream = "tested"
  /\ \E pre \in BOOLEAN :
       /\ pre => logger.next <= MaxLogs
       /\ logger' = [Did(IF pre THEN log(logger) ELSE logger, "skipped")
                       EXCEPT !.stream = "read"]
  /\ UNCHANGED <<objs, routes, hist, last, framer, parser>>

\* the record goes through processOrder, which logs k records of its own
RecordProcessed ==
  /\ logger.stream = "tested"
  /\ \E k \in 1..3 :
       /\ logger.next + k - 1 <= MaxLogs
       /\ logger' = Did(processOrderLogs(logger, k), "processed")
  /\ UNCHANGED <<objs, routes, hist, last, framer, parser>>

\* a log call that no flush follows: a line that does not parse
LogOnly ==
  /\ logger.stream = "read" /\ logger.next <= MaxLogs
  /\ logger' = Did(log(logger), "log")
  /\ UNCHANGED <<objs, routes, hist, last, framer, parser>>

\* the heartbeat timer of the active object fires
HeartbeatLogs ==
  /\ logger.stream # "off" /\ logger.next <= MaxLogs
  /\ ~logger.ingests["heartbeat"].on
  /\ logger' = Did(heartbeatLogs(logger), "heartbeat")
  /\ UNCHANGED <<objs, routes, hist, last, framer, parser>>

\* client.ingest of a waiting flush() is over
IngestSettles ==
  /\ \E caller \in Callers, outcome \in {"ok", "fail"} :
       /\ logger.ingests[caller].on
       /\ logger' = Did(ingestSettles(logger, caller, outcome),
                        "ingest." \o outcome)
  /\ UNCHANGED <<objs, routes, hist, last, framer, parser>>

\* time passes: up to the age threshold, or beyond it
Advance ==
  /\ logger.stream # "off"
  /\ \E t \in {FlushAge, FlushAge + 1} :
       /\ t > logger.since
       /\ logger' = Did([logger EXCEPT !.since = t], "time")
  /\ UNCHANGED <<objs, routes, hist, last, framer, parser>>

InitLogger ==
  /\ Quiet
  /\ framer = NoFramer /\ parser = NoParser
  /\ \E en \in BOOLEAN : logger = Logger(en)

NextLogger ==
  \/ StreamRecord
  \/ RecordSkipped
  \/ RecordProcessed
  \/ LogOnly
  \/ HeartbeatLogs
  \/ IngestSettles
  \/ Advance

\* the logger of one connected object from the start of the stream on
SpecLogger == InitLogger /\ [][NextLogger]_vars

\* the dish line is parsed
ParseLine ==
  /\ ~parser.done
  /\ parser' = [parser EXCEPT !.dishes = parseLine(parser.line),
                               !.done = TRUE]
  /\ UNCHANGED <<objs, routes, hist, last, framer, logger>>

\* the lines of at most n characters
RECURSIVE LinesUpTo(_)
LinesUpTo(n) ==
  IF n = 0 THEN {<<>>}
  ELSE LET S == LinesUpTo(n - 1)
       IN S \cup {Append(x, c) : x \in {y \in S : Len(y) = n - 1}, c \in Chars}

InitParser ==
  /\ Quiet
  /\ framer = NoFramer /\ logger = NoLogger
  /\ \E line \in LinesUpTo(MaxLine) : parser = Parser(line)

\* one dish line of at most MaxLine characters through parseDishesFromText
SpecParser == InitParser /\ [][ParseLine]_vars

\* the head of processOrder runs on a receipt body
Enrich ==
  /\ ~parser.done
  /\ parser' = enrich(parser)
  /\ UNCHANGED <<objs, routes, hist, last, framer, logger>>

\* the bodies of at most n lines of BodyLines, no line twice
RECURSIVE BodiesUpTo(_)
BodiesUpTo(n) ==
  IF n = 0 THEN {<<>>}
  ELSE LET S == BodiesUpTo(n - 1)
       IN S \cup UNION {{Append(x, l) :
                            l \in BodyLines \ {x[k] : k \in DOMAIN x}} :
                         x \in {y \in S : Len(y) = n - 1}}

InitReceipt ==
  /\ Quiet
  /\ framer = NoFramer /\ logger = NoLogger
  /\ \E lines \in BodiesUpTo(MaxBody) : parser = Receipt(Join(lines))

\* one receipt body of at most MaxBody lines through the head of processOrder
SpecReceipt == InitReceipt /\ [][Enrich]_vars

\* the dish records of one line are made
SendDishes ==
  /\ ~parser.done
  /\ parser' = [parser EXCEPT !.rows = dishRecords(parser.line, parser.mode),
                               !.done = TRUE]
  /\ UNCHANGED <<objs, routes, hist, last, framer, logger>>

InitDishes ==
  /\ Quiet
  /\ framer = NoFramer /\ logger = NoLogger
  /\ \E n \in 0..MaxSlip :
       \E line \in [1..n -> Chars \cup {"/"}], mode \in Modes :
         parser = Sender(line, mode)

\* one line of a dish section of at most MaxSlip characters, of a customer
\* order or of a kitchen slip, to the dish records sent for it
SpecDishes == InitDishes /\ [][SendDishes]_vars

\* the byte sequences of at most n bytes
RECURSIVE BytesUpTo(_)
BytesUpTo(n) ==
  IF n = 0 THEN {<<>>}
  ELSE LET S == BytesUpTo(n - 1)
       IN S \cup {Append(x, b) : x \in {y \in S : Len(y) = n - 1}, b \in Bytes}

InitFramer ==
  /\ Quiet
  /\ logger = NoLogger /\ parser = NoParser
  /\ \E input \in BytesUpTo(MaxInput) : framer = Framer(input)

NextFramer == ReadChunk \/ ReadDone

\* one stream of at most MaxInput bytes, cut into chunks in every way
SpecFramer == InitFramer /\ [][NextFramer]_vars

\* the connection is over and the supervisor has connected again:
\* processSSEStream is called for the new stream
Reconnect ==
  /\ framer.ended /\ framer.conn < MaxConns
  /\ \E input \in BytesUpTo(MaxInput - framer.before - Len(framer.all)) :
       framer' = processSSEStream(framer, input)
  /\ UNCHANGED <<objs, routes, hist, last, logger, parser>>

\* at most MaxConns connections one after the other, of at most MaxInput
\* bytes together
SpecReconnect == InitFramer /\ [][NextFramer \/ Reconnect]_vars

----------------------------------------------------------------------------
\* Properties

\* the delay the design asks for before the retry after the k-th
\* consecutive failure: min(5s * 1.5^(k-1), 60s), in 1/DelayUnit ms
SpecDelay(k) ==
  IF BaseDelay * Pow(3, k - 1) >= MaxDelay * Pow(2, k - 1)
  THEN MaxDelay * DelayUnit
  ELSE BaseDelay * Pow(3, k - 1) * (DelayUnit \div Pow(2, k - 1))

\* C1: once the reconnectAttempts ceiling (10) is reached by a failure, the
\* supervisor is inactive in memory and in storage and no connection attempt
\* is issued until a start() takes effect; no attempt is ever issued with 10
\* or more consecutive failures counted
C1_NoAttemptPastCeiling ==
  \A i \in DONames :
    /\ hist[i].exhausted =>
         /\ ~objs[i].activeConnection
         /\ ~objs[i].storage.activeConnection
         /\ ~(last.i = i /\ last.issued)
    /\ (last.i = i /\ last.issued) => hist[i].fails < maxReconnectAttempts

C1_Witness ==
  \E i \in DONames :
    /\ hist[i].exhausted
    /\ hist[i].fails = maxReconnectAttempts
    /\ objs[i].storage.reconnectAttempts = maxReconnectAttempts
    /\ ~objs[i].activeConnection

\* C2: a start() that takes effect after the ceiling stopped the supervisor
\* issues a connection attempt as soon as its connection loop is launched
C2_StartAfterExhaustionReconnects ==
  \A i \in DONames :
    (hist[i].afterExhaustion /\ hist[i].launched /\ hist[i].lastControl = "start")
      => hist[i].attempted

\* C3: at most one connection loop and at most one stream connection is live
C3_SingleLoop ==
  \A i \in DONames :
    /\ BagCardinality(objs[i].loops) <= 1
    /\ CountAt(objs[i], {"Connecting", "Streaming", "recordFlush"}) <= 1

\* C4: whichever control routes are used, at most one supervisor is live
C4_SingleSupervisor ==
  Cardinality({i \in DONames : objs[i].activeConnection \/ Live(objs[i])}) <= 1

\* C5: after a restart that finds active=true and reconnectAttempts below the
\* ceiling in storage, and until the operator calls start() or stop(), a
\* connection attempt has been issued or a connection loop is on its way to it
C5_ResumesAfterRestart ==
  \A i \in DONames :
    hist[i].resume => Live(objs[i]) \/ objs[i].startPc # "idle"

\* C6: a stream that ends (clean close or read error) while the supervisor
\* is active below the ceiling is followed by BackoffWait, not by an
\* immediate connection attempt
C6_BackoffAfterStreamEnd ==
  \A i \in DONames :
    ( /\ last.i = i
      /\ last.op \in {"read.done", "read.error"}
      /\ objs[i].activeConnection
      /\ objs[i].reconnectAttempts < maxReconnectAttempts )
    => /\ ~last.issued
       /\ CountAt(objs[i], {"BackoffWait", "catchFlush"}) >= 1

\* C7: the delay before the retry after the k-th consecutive failure is
\* min(5s * 1.5^(k-1), 60s); it is non-decreasing in k, never above 60s, and
\* 5s for the first failure after a successful connection
C7_BackoffDelay ==
  /\ \A i \in DONames :
       hist[i].fails \in 1..(maxReconnectAttempts - 1)
         => hist[i].lastDelay = SpecDelay(hist[i].fails)
  /\ SpecDelay(1) = BaseDelay * DelayUnit
  /\ \A k \in 1..(maxReconnectAttempts - 1) :
       /\ SpecDelay(k) <= MaxDelay * DelayUnit
       /\ k > 1 => SpecDelay(k - 1) <= SpecDelay(k)

C7_Witness ==
  \E i \in DONames :
    /\ hist[i].fails = maxReconnectAttempts - 1
    /\ hist[i].lastDelay = MaxDelay * DelayUnit
    /\ CountAt(objs[i], {"BackoffWait"}) >= 1

\* C8: the step in which a connection attempt succeeds leaves
\* reconnectAttempts at 0 in memory and in storage, before the first read
C8_ResetOnConnect ==
  \A i \in DONames :
    (last.i = i /\ last.op = "fetch.ok")
      => /\ objs[i].reconnectAttempts = 0
         /\ objs[i].storage.reconnectAttempts = 0

C8_Witness ==
  \E i \in DONames :
    /\ last.i = i /\ last.op = "fetch.ok" /\ last.from >= 2
    /\ objs[i].storage.totalReceived >= 1
    /\ CountAt(objs[i], {"Streaming"}) >= 1

C10_StartWhenActiveIsNoOp ==
  [][\A i \in DONames :
       (objs[i].activeConnection /\ last'.op = "start" /\ last'.i = i)
         => (objs'[i] = objs[i] /\ last'.resp = "connected")]_vars

C10_Witness ==
  \E i \in DONames :
    /\ last.i = i /\ last.op = "start" /\ last.resp = "connected"
    /\ objs[i].activeConnection
    /\ CountAt(objs[i], {"Streaming"}) = 1

\* C11: whenever a connection attempt is issued, active=true is already in
\* the checkpoint store: the start() that launched the loop wrote it before
\* the loop's first attempt
C11_ActivePersistedBeforeAttempt ==
  \A i \in DONames :
    (last.i = i /\ last.issued) => objs[i].storage.activeConnection

C11_Witness ==
  \E i \in DONames :
    /\ last.i = i /\ last.op = "start.connFlush" /\ last.issued
    /\ objs[i].storage.activeConnection
    /\ CountAt(objs[i], {"Connecting"}) = 1

\* C12: the totalOrdersReceived a restart restores equals the value the
\* counter had after the last event counted before the restart
C12_CounterSurvivesRestart ==
  \A i \in DONames :
    (last.i = i /\ last.op = "restart")
      => objs[i].totalOrdersReceived = objs[i].storage.totalReceived

\* C13: a status() request leaves the object, its connection loops and its
\* storage as they were
C13_StatusHasNoEffect ==
  [][\A i \in DONames :
       (last'.op = "status" /\ last'.i = i) => objs'[i] = objs[i]]_vars

C13_Witness ==
  \E i \in DONames :
    /\ last.i = i /\ last.op = "status"
    /\ last.resp.connected /\ last.resp.reconnectAttempts >= 1
    /\ last.resp.lastError
    /\ CountAt(objs[i], {"BackoffWait"}) = 1

\* C14: status() answers connected=true only while a connection loop is
\* running or the start() that launches it is under way
C14_StatusReflectsState ==
  \A i \in DONames :
    (last.i = i /\ last.op = "status" /\ last.resp.connected)
      => Live(objs[i]) \/ objs[i].startPc # "idle"

\* the category the design gives a record, first match first
Category(e) ==
  IF e.type = "connected" THEN "Heartbeat"
  ELSE IF ~e.receipt /\ "pre" \in e.markers THEN "PreCheckout"
  ELSE IF ~e.receipt THEN "Malformed"
  ELSE IF "checkout" \in e.markers THEN "Checkout"
  ELSE IF "slip" \in e.markers THEN "KitchenSlip"
  ELSE IF "order" \in e.markers \/ "add" \in e.markers THEN "CustomerOrder"
  ELSE "Unknown"

\* the insert calls issued for a record on one table
InsertsInto(job, table) ==
  {k \in DOMAIN job.inserts : job.inserts[k].table = table}

\* the steps of the stream path in which a record is handled
RecordOps ==
  {"read.garbage", "read.event", "recordFlush", "doneFlush"} \cup
  {"insert." \o k \o "." \o o : k \in {"order", "dishes", "slip"},
                                o \in Outcomes}

\* the points of processSSEStream
StreamPcs ==
  {"Streaming", "recordFlush", "orderInsert", "dishInsert", "slipInsert",
   "doneFlush"}

\* C15: when the handling of a record that parses ends, one Order insert has
\* been issued for it if its category is CustomerOrder and none otherwise,
\* on the stream path and on the process-order path
C15_OneOrderPerCustomerOrder ==
  (last.job.done /\ last.job.e.json = "object")
    => Cardinality(InsertsInto(last.job, "order_orders"))
         = (IF Category(last.job.e) = "CustomerOrder" THEN 1 ELSE 0)

\* C16: on the stream path, when the handling of a record without
\* receipt_no ends, no insert has been issued for it, with the pre-checkout
\* token in its body or without
C16_NoInsertWithoutReceipt ==
  ( /\ last.job.done /\ last.op # "process-order"
    /\ Category(last.job.e) \in {"PreCheckout", "Malformed"} )
    => last.job.inserts = <<>>

C16_Witness ==
  /\ last.job.done /\ last.op = "recordFlush"
  /\ Category(last.job.e) = "Malformed"
  /\ "order" \in last.job.e.markers
  /\ last.job.inserts = <<>>
  /\ objs[last.i].totalOrdersReceived = 1

\* C17: when the handling of a record of category Unknown ends, no insert
\* has been issued for it, on the stream path and on the process-order path
C17_NoInsertForUnknown ==
  (last.job.done /\ last.job.e.json = "object"
     /\ Category(last.job.e) = "Unknown")
    => last.job.inserts = <<>>

\* C18: the step that reads the connection sentinel leaves the counter and
\* the storage as they were, hands the record to no further handling and
\* issues no insert
C18_SentinelDropped ==
  [][\A i \in DONames :
       (last'.op = "read.sentinel" /\ last'.i = i)
         => /\ objs'[i].totalOrdersReceived = objs[i].totalOrdersReceived
            /\ objs'[i].storage = objs[i].storage
            /\ last'.job.done /\ ~last'.job.caught
            /\ last'.job.inserts = <<>>
            /\ CountAt(objs'[i], StreamPcs \ {"Streaming"})
                 = CountAt(objs[i], StreamPcs \ {"Streaming"})]_vars

C18_Witness ==
  /\ last.op = "read.sentinel" /\ last.job.e = SentinelEvent
  /\ last.job.done
  /\ objs[last.i].totalOrdersReceived = 0
  /\ CountAt(objs[last.i], {"Streaming"}) = 1

\* C19: when the handling of a kitchen slip ends, every Dish insert issued
\* for it carries the station id of the table, and none has been issued if
\* the slip names no station or a station that is not in the table
C19_SlipDishesHaveStation ==
  (last.job.done /\ last.job.e.json = "object"
     /\ Category(last.job.e) = "KitchenSlip")
    => /\ \A k \in InsertsInto(last.job, "order_dishes") :
            last.job.inserts[k].station = "id"
       /\ last.job.e.station # "listed"
            => InsertsInto(last.job, "order_dishes") = {}

\* C20: a step of the handling of a record leaves activeConnection,
\* reconnectAttempts and the stored error time as they were, sends no loop
\* to the catch block or the backoff wait, and, if the supervisor is
\* active, leaves the loop in processSSEStream, reading on once the record
\* is dealt with
C20_RecordErrorsContained ==
  [][\A i \in DONames :
       (last'.i = i /\ last'.op \in RecordOps)
         => /\ objs'[i].activeConnection = objs[i].activeConnection
            /\ objs'[i].reconnectAttempts = objs[i].reconnectAttempts
            /\ objs'[i].storage.activeConnection = objs[i].storage.activeConnection
            /\ objs'[i].storage.reconnectAttempts = objs[i].storage.reconnectAttempts
            /\ objs'[i].storage.lastError = objs[i].storage.lastError
            /\ CountAt(objs'[i], {"Connecting", "catchFlush", "BackoffWait"})
                 = CountAt(objs[i], {"Connecting", "catchFlush", "BackoffWait"})
            /\ objs'[i].activeConnection
                 => /\ CountAt(objs'[i], StreamPcs) = CountAt(objs[i], StreamPcs)
                    /\ last'.job.done => CountAt(objs'[i], {"Streaming"}) >= 1]_vars

C20_Witness ==
  /\ last.op = "insert.order.rejected"
  /\ last.job.done /\ last.job.caught
  /\ objs[last.i].activeConnection
  /\ objs[last.i].reconnectAttempts = 0
  /\ CountAt(objs[last.i], {"Streaming"}) = 1


\* the records in hand at the object i: those of its suspended invocations
\* and the one whose handling ended in the last step
InHand(i) ==
  ({cur.job : cur \in DOMAIN objs[i].loops}
     \cup (IF last.i = i THEN {last.job} ELSE {})) \ {NoJob}

\* C21: at most one Order insert call is issued for a record; after an
\* insert that was rejected or got no response the failure is reported and
\* no further insert is issued for the record
C21_OrderInsertNotRetried ==
  /\ \A i \in DONames : \A job \in InHand(i) \cup {last.job} :
       Cardinality(InsertsInto(job, "order_orders")) <= 1
  /\ last.op \in {"insert.order.rejected", "insert.order.thrown"}
       => \A job \in InHand(last.i) :
            /\ job.caught
            /\ job.inserts = <<Insert("order_orders", "", 1)>>

C21_Witness ==
  /\ last.op = "insert.order.rejected"
  /\ \E job \in InHand(last.i) :
       job.caught /\ Len(job.inserts) = 1 /\ job.e.orderDishes > 0


\* the steps in which an insert call settles, and the points at which an
\* invocation waits for one
InsertOps ==
  {"insert." \o k \o "." \o o : k \in {"order", "dishes", "slip"},
                                o \in Outcomes}

InsertPcs == {"orderInsert", "dishInsert", "slipInsert"}

\* logger.log: the calls reach the buffer when the logger is enabled
Buffered(s, job) == IF s.enabled THEN job.ops ELSE <<>>

\* the first n insert calls of the record have one telemetry record each,
\* with the table of the call, the last of them with the flag ok
Reported(s, job, n, ok) ==
  /\ Len(Buffered(s, job)) = n
  /\ \A k \in 1..n : Buffered(s, job)[k].table = job.inserts[k].table
  /\ n > 0 => Buffered(s, job)[n].success = ok

\* C22: with telemetry enabled, when an insert call of the stream path
\* settles, with a 2xx answer, another answer or none, every insert call
\* settled so far for the record has one supabase.operation record, with
\* the table of the call and, for the last one, its success flag
C22_EveryInsertReported ==
  \A i \in DONames :
    (last.i = i /\ last.op \in InsertOps /\ objs[i].enabled)
      => LET ok == last.op \in {"insert.order.ok", "insert.dishes.ok",
                                "insert.slip.ok"}
         IN /\ last.job # NoJob
                 => Reported(objs[i], last.job, Len(last.job.inserts), ok)
            /\ \A cur \in DOMAIN objs[i].loops :
                 cur.job # NoJob
                   => Reported(objs[i], cur.job,
                               Len(cur.job.inserts)
                                 - (IF cur.pc \in InsertPcs THEN 1 ELSE 0),
                               ok)


\* C23: at most one Dish insert call is issued for a record, whatever the
\* number of dishes it lists
C23_DishesInOneBatch ==
  \A i \in DONames : \A job \in InHand(i) \cup {last.job} :
    Cardinality(InsertsInto(job, "order_dishes")) <= 1


\* C24: whatever the chunks the bytes read so far arrived in, the lines
\* passed on, the incomplete line kept and the byte held by the decoder are
\* those of the same bytes arriving as one chunk: a line cut by a chunk
\* boundary is passed on once and whole
C24_ChunkingInvariant ==
  ~framer.ended =>
    LET one == readChunk(Framer(<<>>), framer.all)
    IN /\ framer.out = one.out
       /\ framer.buffer = one.buffer
       /\ framer.held = one.held

C24_Witness ==
  /\ framer.all = <<"a", "L", "T", "n">>
  /\ framer.cuts = {2, 4}
  /\ framer.out = << <<"a", "x">> >>

\* C25: no line passed on is empty or made of white space only, and a
\* line is passed on once at most for each line feed read
C25_NoBlankRecord ==
  /\ \A k \in DOMAIN framer.out :
       /\ framer.out[k] # <<>>
       /\ framer.out[k][1] # "s"
       /\ framer.out[k][Len(framer.out[k])] # "s"
  /\ Len(framer.out)
       <= Cardinality({k \in DOMAIN framer.all : framer.all[k] = "n"})

C25_Witness ==
  /\ framer.all = <<"s", "n", "n", "a">>
  /\ framer.out = <<>>
  /\ framer.buffer = <<"a">>


\* the invocation c2 has the k-th of the lines in hand, or is past the last
\* of them, and the lines after the k-th are still to come, in their order
TakenInOrder(c2, lines, k) ==
  /\ c2.lines = SubSeq(lines, k + 1, Len(lines))
  /\ \/ c2.job # NoJob /\ c2.job.e = lines[k].e
     \/ c2.job = NoJob /\ k = Len(lines)

\* C26: on a connection one record is in hand at a time, and the record
\* taken in hand next is a line of the chunk that came after the one in
\* hand before; the lines before it are dealt with and the lines after it
\* are still to come, in their order of arrival
C26_RecordsInArrivalOrder ==
  [][\A i \in DONames :
       /\ CountAt(objs'[i], StreamPcs) <= 1
       /\ \A c1 \in DOMAIN objs[i].loops, c2 \in DOMAIN objs'[i].loops :
            /\ (last'.i = i /\ last'.op = "read.lines")
                 => \E k \in DOMAIN last'.resp :
                      TakenInOrder(c2, last'.resp, k)
            /\ (last'.i = i /\ c1.lines # <<>>)
                 => \/ c2.lines = c1.lines /\ c2.job.e = c1.job.e
                    \/ \E k \in DOMAIN c1.lines :
                         TakenInOrder(c2, c1.lines, k)]_vars

C26_Witness ==
  /\ last.op = "doneFlush" /\ last.job.done
  /\ last.job.inserts # <<>> /\ "order" \in last.job.e.markers
  /\ \E cur \in DOMAIN objs[last.i].loops :
       /\ cur.pc = "slipInsert"
       /\ "slip" \in cur.job.e.markers
       /\ cur.lines = <<>>


\* p is the beginning of q
IsPrefix(p, q) == Len(p) <= Len(q) /\ SubSeq(q, 1, Len(p)) = p

\* C27: the step in which a flush fails leaves the buffer as it was, record
\* for record; if no flush succeeded since the failed one was called, the
\* buffer begins with the records that flush found; and the caller goes on
\* as after a flush that succeeded
C27_FailedFlushKeepsBuffer ==
  [][logger'.did.op = "ingest.fail"
       => /\ logger'.buffer = logger.buffer
          /\ \A c \in Callers :
               (logger.ingests[c].on /\ ~logger'.ingests[c].on)
                 => /\ ~logger.ingests[c].cleared
                         => IsPrefix(logger.ingests[c].from, logger'.buffer)
                    /\ c = "stream" => logger'.stream = "tested"
                    /\ c = "order" => logger'.stream = "read"]_vars

C27_Witness ==
  /\ logger.did.op = "ingest.fail"
  /\ Len(logger.buffer) >= 2
  /\ logger.stream = "tested"
  /\ ~logger.ingests["stream"].on

\* C28: when a counted record is logged while streaming and the buffer
\* then holds 5 records or more, or more than 30 s have passed since the
\* last flush, flush() is called
C28_FlushAtThreshold ==
  (logger.did.op = "record"
     /\ (logger.did.size >= FlushSize \/ logger.did.since > FlushAge))
    => logger.did.flush


\* C29: while an object is active its heartbeat timer is armed or its
\* tick is running: the next tick is never left unscheduled
C29_HeartbeatWhileActive ==
  \A i \in DONames :
    objs[i].activeConnection => objs[i].heartbeat # "off"


\* C30: every dish extracted from a line that matches the strict pattern
\* has a quantity that is a positive integer and a name that does not
\* begin with a digit
C30_StrictDishesWellFormed ==
  (parser.done /\ StrictNames(trim(parser.line)) # {})
    => \A k \in DOMAIN parser.dishes :
         /\ parser.dishes[k].quantity \in Nat \ {0}
         /\ parser.dishes[k].name[1] \notin Digits


\* C31: the body "桌号: 8 / 客单 / 野菜卷181份18 / 木姜子牛肉522份104 /
\* 合计: 122 / 单号: C001" is classified a customer order with table "8"
\* and its dishes are 野菜卷 x1 and 木姜子牛肉 x2, in that order
C31_ScenarioDishes ==
  (parser.done /\ parser.text = Join(Scenario))
    => /\ parser.type = "customer_order"
       /\ parser.table_no = <<"8">>
       /\ parser.items = <<[name |-> <<"a", "a", "a">>, quantity |-> 1],
                           [name |-> <<"a", "a", "a", "a", "a">>,
                            quantity |-> 2]>>


\* C32: every dish record sent to the store has a non-empty name and a
\* quantity that is an integer of at least 1, for a customer order and for
\* a kitchen slip, whatever the line
C32_DishRecordsWellFormed ==
  parser.done =>
    \A k \in DOMAIN parser.rows :
      /\ parser.rows[k].name # <<>>
      /\ parser.rows[k].quantity \in Nat \ {0}

\* C33: a line of a kitchen slip that begins with the modifier mark '-'
\* yields no dish, on the stream path and on the process-order path
C33_SlipModifierSkipped ==
  (/\ parser.done /\ parser.mode[1] = "slip"
   /\ trim(parser.line) # <<>> /\ trim(parser.line)[1] = "-")
    => parser.rows = <<>>


\* C34: customer-order extraction returns at most 10 dishes and no dish
\* whose name is shorter than 2 characters
C34_DishesCappedNamesLong ==
  parser.done =>
    /\ Len(parser.dishes) <= 10
    /\ \A k \in DOMAIN parser.dishes : Len(parser.dishes[k].name) >= 2


\* what a record holds of bodyText and receiptNumber
Body(e) ==
  [receipt |-> e.receipt, text |-> e.text, markers |-> e.markers,
   station |-> e.station, orderDishes |-> e.orderDishes,
   slipDishes |-> e.slipDishes]

\* C35: the record just handled, one with a receipt number and a body, is
\* taken for the same as every record with the same bodyText and
\* receiptNumber, whatever its type
C35_ClassificationOfBodyOnly ==
  (/\ last.job.done /\ last.job.e.json = "object"
   /\ last.job.e.receipt /\ last.job.e.text)
    => LET path == IF last.op = "process-order" THEN "order" ELSE "stream"
       IN \A e \in Events :
            (e.json = "object" /\ Body(e) = Body(last.job.e))
              => classify(e, path) = classify(last.job.e, path)


\* C36: no record is lost by a successful flush: every record logged,
\* those logged while a flush was in flight included, is in a batch that
\* was delivered or is still in the buffer
C36_NoRecordLost ==
  logger.enabled =>
    \A n \in 1..(logger.next - 1) :
      n \in logger.sent \/ \E k \in DOMAIN logger.buffer : logger.buffer[k] = n


\* C37: on the stream path, when the handling of a record ends: if its
\* Order insert failed no Dish insert was issued for it and ordersProcessed
\* and lastUpdate are as they were; ordersProcessed has grown by 1 if the
\* Order insert was acknowledged and not at all otherwise
C37_CountedOncePerOrder ==
  \A i \in DONames :
    (last.i = i /\ last.job.done /\ last.op # "process-order")
      => LET job   == last.job
             acked == \E k \in DOMAIN job.ops :
                        job.ops[k] = [table |-> "order_orders", success |-> TRUE]
         IN /\ (InsertsInto(job, "order_orders") # {} /\ ~acked)
                 => /\ InsertsInto(job, "order_dishes") = {}
                    /\ objs[i].storage.ordersProcessed = 0
                    /\ ~objs[i].storage.lastUpdate
            /\ objs[i].storage.ordersProcessed = (IF acked THEN 1 ELSE 0)


\* C38: the step in which a connect or a stream read aborted by stop()
\* settles leaves reconnectAttempts and lastError as they were, in memory
\* and in storage, and brings no invocation to the flush after which a
\* failure is counted
C38_AbortNotCounted ==
  [][\A i \in DONames :
       (last'.i = i /\ last'.op \in {"fetch.abort", "read.abort"})
         => /\ objs'[i].reconnectAttempts = objs[i].reconnectAttempts
            /\ objs'[i].storage.reconnectAttempts
                 = objs[i].storage.reconnectAttempts
            /\ objs'[i].storage.lastError = objs[i].storage.lastError
            /\ CountAt(objs'[i], {"catchFlush"})
                 = CountAt(objs[i], {"catchFlush"})]_vars

C38_Witness ==
  /\ last.op \in {"fetch.abort", "read.abort"}
  /\ objs[last.i].activeConnection
  /\ objs[last.i].reconnectAttempts >= 1
  /\ objs[last.i].storage.lastError


\* C39: once stop() has been handled and until a start() takes effect, no
\* step of the object issues an Order or a Dish insert
C39_NoInsertAfterStop ==
  [][\A i \in DONames :
       (last'.i = i /\ hist[i].lastControl = "stop")
         => \A c2 \in DOMAIN objs'[i].loops :
              c2.pc \in InsertPcs
                => /\ c2 \in DOMAIN objs[i].loops
                   /\ objs'[i].loops[c2] <= objs[i].loops[c2]]_vars


\* C40: the lines passed on in a connection are the lines of the bytes of
\* that connection that a line feed has ended: what the buffer held when
\* the connection before ended is neither passed on nor put before the
\* first line of this one, and the unterminated rest is not passed on when
\* the connection ends
C40_NoCarryOverAcrossConnections ==
  /\ framer.out = readChunk(Framer(<<>>), framer.all).out
  /\ Len(framer.out)
       <= Cardinality({k \in DOMAIN framer.all : framer.all[k] = "n"})

C40_Witness ==
  /\ framer.conn = 2 /\ ~framer.ended
  /\ framer.before = 2 /\ framer.lost = <<"a">>
  /\ framer.all = <<"a", "n">>
  /\ framer.out = << <<"a">> >>

====
